---- MODULE Spec2Model ----
(***************************************************************************)
(* A model of the pg-mcp server's connection tools (server/tools/          *)
(* connection.py, server/tools/schema.py, server/config.py) and of the     *)
(* example client's orchestration (example-clients/ollama_cli.py).         *)
(*                                                                         *)
(* The server runs on one asyncio event loop: a tool handler runs without  *)
(* interruption from one await to the next, so every action below is the   *)
(* code between two suspension points of one handler.  The framework       *)
(* dispatches a tool only after a lifespan was entered, so mcp.state is    *)
(* set whenever a tool runs.                                               *)
(*                                                                         *)
(* server/database.py (class Database) is not part of the sources at hand; *)
(* its three methods used by the tools (register_connection, close,        *)
(* get_connection) are modelled from the specification's section 4.1.      *)
(***************************************************************************)
EXTENDS Integers, Sequences, FiniteSets, TLC

(* ------------------------------ bounds --------------------------------- *)

\* the largest connection id the registry hands out
MaxIds == 2

\* the number of disconnect / schema tool invocations of one run
MaxCalls == 2

\* the number of client sessions (app_lifespan contexts) of one run
MaxSessions == 1

\* the number of pieces (Tokens) a model response is made of
MaxTokens == 4

(* ----------------------------- constants ------------------------------- *)

\* the connection strings callers register
Strings == {"postgres://a", "postgres://b"}

\* the ids the registry generates
Ids == 1 .. MaxIds

\* the conn_id arguments callers pass: an id is unknown to the registry until
\* it is issued and again once it is disconnected
ConnIdArgs == Ids

NoId == -1

VARIABLES
    mcp_state,       \* config.py:20  TRUE once mcp.state = {"db": global_db}
    lifespans,       \* app_lifespan contexts: [open |-> n, ended |-> n]
    connection_map,  \* db._connection_map : conn_id -> connection string
    reverse_map,     \* db._reverse_map    : connection string -> conn_id
    pools,           \* db's pools         : conn_id -> connection string
    checked_out,     \* connections acquired from each id's pool
    next_id,         \* the next fresh id of the registry
    calls,           \* the disconnect / schema tool invocations, in order
    connect_ret,     \* what the latest connect call returned
    last_conn,       \* per string: the id connect returned, no disconnect since
    released         \* the ids some disconnect answered {success: true} for

server_vars == <<mcp_state, lifespans, connection_map, reverse_map, pools,
                 checked_out, next_id, calls, connect_ret, last_conn, released>>

registry == <<connection_map, reverse_map, pools, next_id>>

\* the example client (example-clients/ollama_cli.py)
VARIABLES
    pc,              \* the place main() has reached
    conn_id,         \* ollama_cli.py:298  the connection id, NoId before
    response_text,   \* ollama_cli.py:87   the model's text, None before
    response_data,   \* ollama_cli.py:306  what generate_sql_with_ollama returned
    query_result,    \* ollama_cli.py:339  how the pg_query call ended
    issued,          \* the remote calls issued so far, in order
    exit_code,       \* the process exit status, NoExit while running
    failure,         \* the step that failed, "" when none did
    interrupted      \* ollama_cli.py:400  a KeyboardInterrupt ended the run

client_vars == <<pc, conn_id, response_text, response_data, query_result,
                 issued, exit_code, failure, interrupted>>

\* the extraction pipeline of the client, studied on one model response
VARIABLES
    stage,           \* how far the pipeline got on model_response
    model_response,  \* ollama_cli.py:87    the text the model answered
    extraction,      \* ollama_cli.py:111   what extract_sql_from_response gave
    generation,      \* ollama_cli.py:113-132  the result dict of the generation
    regeneration     \* the result dict for generation's sql as the response

extract_vars == <<stage, model_response, extraction, generation, regeneration>>

(* ------------------------- partial functions --------------------------- *)

Put(f, k, v) == [x \in DOMAIN f \cup {k} |-> IF x = k THEN v ELSE f[x]]

Drop(f, k) == [x \in DOMAIN f \ {k} |-> f[x]]

(* --------------------------- server: state ----------------------------- *)

NoConnect == [conn_id |-> NoId, prev |-> NoId]

ServerInit ==
    /\ mcp_state = FALSE
    /\ lifespans = [open |-> 0, ended |-> 0]
    /\ connection_map = <<>>
    /\ reverse_map = <<>>
    /\ pools = <<>>
    /\ checked_out = [i \in Ids |-> 0]
    /\ next_id = 1
    /\ calls = <<>>
    /\ connect_ret = NoConnect
    /\ last_conn = [s \in Strings |-> NoId]
    /\ released = {}

(* ------------------------ server: app_lifespan ------------------------- *)

\* config.py:20-23  entering the lifespan publishes the global Database
app_lifespan_enter ==
    /\ lifespans.open + lifespans.ended < MaxSessions
    /\ mcp_state' = TRUE
    /\ lifespans' = [lifespans EXCEPT !.open = @ + 1]
    /\ UNCHANGED <<connection_map, reverse_map, pools, checked_out, next_id,
                   calls, connect_ret, last_conn, released>>
    /\ UNCHANGED <<client_vars, extract_vars>>

\* a lifespan exit that tears the pools down (the bug config.py warns about)
app_lifespan_exit_closing ==
    /\ lifespans.open > 0
    /\ lifespans' = [open |-> lifespans.open - 1, ended |-> lifespans.ended + 1]
    /\ pools' = <<>>
    /\ UNCHANGED <<mcp_state, connection_map, reverse_map, checked_out, next_id,
                   calls, connect_ret, last_conn, released>>
    /\ UNCHANGED <<client_vars, extract_vars>>

\* config.py:24-27  the finally block only logs: no global_db.close()
app_lifespan_exit ==
    /\ lifespans.open > 0
    /\ lifespans' = [open |-> lifespans.open - 1, ended |-> lifespans.ended + 1]
    /\ UNCHANGED <<mcp_state, connection_map, reverse_map, pools, checked_out,
                   next_id, calls, connect_ret, last_conn, released>>
    /\ UNCHANGED <<client_vars, extract_vars>>

(* --------------------- server: Database (from spec) -------------------- *)

\* Database.register_connection(connection_string) returning id: a known
\* string yields its id; a new one gets a pool, a fresh id and both entries.
\* It is called without await (connection.py:25), so it is one step.
register_connection(s, id) ==
    IF s \in DOMAIN reverse_map
    THEN /\ id = reverse_map[s]
         /\ UNCHANGED registry
    ELSE /\ next_id <= MaxIds
         /\ id = next_id
         /\ next_id' = next_id + 1
         /\ connection_map' = Put(connection_map, id, s)
         /\ reverse_map' = Put(reverse_map, s, id)
         /\ pools' = Put(pools, id, s)

\* Database.close(conn_id), once the awaited close completed: the pool of
\* conn_id is gone (a second completion finds nothing left to remove).
db_close(i) == Drop(pools, i)

\* Database.get_connection(conn_id): UnknownConnection for an id that is not
\* registered, otherwise a scoped acquisition from the id's pool.
get_connection_known(i) == i \in DOMAIN connection_map

(* -------------------------- server: connect ---------------------------- *)

\* connect that registers every call afresh, skipping the dedup lookup
connect_no_dedup(s) ==
    /\ mcp_state
    /\ next_id <= MaxIds
    /\ next_id' = next_id + 1
    /\ connection_map' = Put(connection_map, next_id, s)
    /\ reverse_map' = Put(reverse_map, s, next_id)
    /\ pools' = Put(pools, next_id, s)
    /\ connect_ret' = [conn_id |-> next_id, prev |-> last_conn[s]]
    /\ last_conn' = [last_conn EXCEPT ![s] = next_id]
    /\ UNCHANGED <<mcp_state, lifespans, checked_out, calls, released>>
    /\ UNCHANGED <<client_vars, extract_vars>>

\* connection.py:11-31  connect(connection_string)
connect(s) ==
    /\ mcp_state                       \* connection.py:19  db = mcp.state["db"]
    /\ \E id \in Ids :
          /\ register_connection(s, id)  \* connection.py:25
          /\ connect_ret' = [conn_id |-> id, prev |-> last_conn[s]]
          /\ last_conn' = [last_conn EXCEPT ![s] = id]
    /\ UNCHANGED <<mcp_state, lifespans, checked_out, calls, released>>
    /\ UNCHANGED <<client_vars, extract_vars>>

(* ------------------------- server: disconnect -------------------------- *)

\* the disconnect calls suspended in "await db.close(conn_id)" for id i
Closing(i) ==
    {t \in 1 .. Len(calls) :
        calls[t].kind = "disconnect" /\ calls[t].pc = "closing"
        /\ calls[t].conn_id = i}

Call(kind, i, at, result) ==
    [kind |-> kind, conn_id |-> i, pc |-> at, result |-> result,
     late |-> i \in released, peers |-> Closing(i)]

NoDisconnectSince == [s \in Strings |-> NoId]

\* disconnect without the "conn_id not in db._connection_map" test
disconnect_no_check(i) ==
    /\ Len(calls) < MaxCalls
    /\ mcp_state
    /\ last_conn' = NoDisconnectSince
    /\ calls' = Append(calls, Call("disconnect", i, "closing", "none"))
    /\ UNCHANGED <<mcp_state, lifespans, connection_map, reverse_map, pools,
                   checked_out, next_id, connect_ret, released>>
    /\ UNCHANGED <<client_vars, extract_vars>>

\* disconnect that removes the registry entries before awaiting the close
disconnect_pop_first(i) ==
    /\ Len(calls) < MaxCalls
    /\ mcp_state
    /\ last_conn' = NoDisconnectSince
    /\ IF i \notin DOMAIN connection_map
       THEN /\ calls' = Append(calls, Call("disconnect", i, "done",
                                           "Unknown connection ID"))
            /\ UNCHANGED <<connection_map, reverse_map>>
       ELSE /\ calls' = Append(calls, Call("disconnect", i, "closing", "none"))
            /\ connection_map' = Drop(connection_map, i)
            /\ reverse_map' = Drop(reverse_map, connection_map[i])
    /\ UNCHANGED <<mcp_state, lifespans, pools, checked_out, next_id,
                   connect_ret, released>>
    /\ UNCHANGED <<client_vars, extract_vars>>

\* connection.py:33-46  disconnect(conn_id) up to its await
disconnect(i) ==
    /\ Len(calls) < MaxCalls
    /\ mcp_state                       \* connection.py:39  db = mcp.state["db"]
    /\ last_conn' = NoDisconnectSince
    /\ IF i \notin DOMAIN connection_map
       THEN \* connection.py:41-43
            calls' = Append(calls, Call("disconnect", i, "done",
                                        "Unknown connection ID"))
       ELSE \* connection.py:45-46  suspended in await db.close(conn_id)
            calls' = Append(calls, Call("disconnect", i, "closing", "none"))
    /\ UNCHANGED <<mcp_state, lifespans, connection_map, reverse_map, pools,
                   checked_out, next_id, connect_ret, released>>
    /\ UNCHANGED <<client_vars, extract_vars>>

\* the resumption that removes the id entry and leaves the string entry
disconnect_resume_keep_reverse(t) ==
    /\ t \in 1 .. Len(calls)
    /\ calls[t].kind = "disconnect"
    /\ calls[t].pc = "closing"
    /\ last_conn' = NoDisconnectSince
    /\ pools' = db_close(calls[t].conn_id)
    /\ connection_map' = Drop(connection_map, calls[t].conn_id)
    /\ released' = released \cup {calls[t].conn_id}
    /\ calls' = [calls EXCEPT ![t].pc = "done", ![t].result = "success"]
    /\ UNCHANGED <<mcp_state, lifespans, reverse_map, checked_out, next_id,
                   connect_ret>>
    /\ UNCHANGED <<client_vars, extract_vars>>

\* the resumption that answers success and leaves both entries in place
disconnect_resume_keep_entry(t) ==
    /\ t \in 1 .. Len(calls)
    /\ calls[t].kind = "disconnect"
    /\ calls[t].pc = "closing"
    /\ last_conn' = NoDisconnectSince
    /\ pools' = db_close(calls[t].conn_id)
    /\ released' = released \cup {calls[t].conn_id}
    /\ calls' = [calls EXCEPT ![t].pc = "done", ![t].result = "success"]
    /\ UNCHANGED <<mcp_state, lifespans, connection_map, reverse_map,
                   checked_out, next_id, connect_ret>>
    /\ UNCHANGED <<client_vars, extract_vars>>

\* the resumption that removes both entries whether or not the close raised
disconnect_resume_pop_on_error(t) ==
    /\ t \in 1 .. Len(calls)
    /\ calls[t].kind = "disconnect"
    /\ calls[t].pc = "closing"
    /\ last_conn' = NoDisconnectSince
    /\ \E closed \in BOOLEAN :
        LET i == calls[t].conn_id IN
        /\ connection_map' = Drop(connection_map, i)
        /\ reverse_map' =
              IF i \in DOMAIN connection_map
                 /\ connection_map[i] \in DOMAIN reverse_map
              THEN Drop(reverse_map, connection_map[i])
              ELSE reverse_map
        /\ IF closed
           THEN /\ pools' = db_close(i)
                /\ released' = released \cup {i}
                /\ calls' = [calls EXCEPT ![t].pc = "done", ![t].result = "success"]
           ELSE /\ calls' = [calls EXCEPT ![t].pc = "done", ![t].result = "error"]
                /\ UNCHANGED <<pools, released>>
    /\ UNCHANGED <<mcp_state, lifespans, checked_out, next_id, connect_ret>>
    /\ UNCHANGED <<client_vars, extract_vars>>

\* connection.py:46-54  disconnect(conn_id) from the completion of its await
disconnect_resume(t) ==
    /\ t \in 1 .. Len(calls)
    /\ calls[t].kind = "disconnect"
    /\ calls[t].pc = "closing"
    /\ last_conn' = NoDisconnectSince
    /\ \E closed \in BOOLEAN :
        LET i == calls[t].conn_id IN
        IF closed
        THEN \* connection.py:46-51
             /\ pools' = db_close(i)
             /\ connection_map' = Drop(connection_map, i)
             /\ reverse_map' =
                   IF i \in DOMAIN connection_map
                      /\ connection_map[i] \in DOMAIN reverse_map
                   THEN Drop(reverse_map, connection_map[i])
                   ELSE reverse_map
             /\ released' = released \cup {i}
             /\ calls' = [calls EXCEPT ![t].pc = "done", ![t].result = "success"]
        ELSE \* connection.py:52-54  the close raised
             /\ calls' = [calls EXCEPT ![t].pc = "done", ![t].result = "error"]
             /\ UNCHANGED <<connection_map, reverse_map, pools, released>>
    /\ UNCHANGED <<mcp_state, lifespans, checked_out, next_id, connect_ret>>
    /\ UNCHANGED <<client_vars, extract_vars>>

(* ------------------------- server: schema tools ------------------------ *)

\* schema.py:7-14 and 22-29 up to the await of conn.fetch: both tools enter
\* "async with db.get_connection(conn_id)" and then suspend in the query
schema_tool(kind, i) ==
    /\ Len(calls) < MaxCalls
    /\ mcp_state                       \* schema.py:12, 27  db = mcp.state["db"]
    /\ IF ~get_connection_known(i)
       THEN /\ calls' = Append(calls, Call(kind, i, "done", "UnknownConnection"))
            /\ UNCHANGED checked_out
       ELSE /\ calls' = Append(calls, Call(kind, i, "fetching", "none"))
            /\ checked_out' = [checked_out EXCEPT ![i] = @ + 1]
    /\ UNCHANGED <<mcp_state, lifespans, connection_map, reverse_map, pools,
                   next_id, connect_ret, last_conn, released>>
    /\ UNCHANGED <<client_vars, extract_vars>>

\* schema.py:7-20
pg_list_tables(i) == schema_tool("pg_list_tables", i)

\* schema.py:22-36
pg_describe_table(i) == schema_tool("pg_describe_table", i)

\* the resumption that keeps the connection when the call is cancelled
schema_tool_resume_leak_on_cancel(t) ==
    /\ t \in 1 .. Len(calls)
    /\ calls[t].pc = "fetching"
    /\ \E outcome \in {"rows", "error", "cancelled"} :
          /\ calls' = [calls EXCEPT ![t].pc = "done", ![t].result = outcome]
          /\ checked_out' = IF outcome = "cancelled" THEN checked_out
                            ELSE [checked_out EXCEPT ![calls[t].conn_id] = @ - 1]
    /\ UNCHANGED <<mcp_state, lifespans, connection_map, reverse_map, pools,
                   next_id, connect_ret, last_conn, released>>
    /\ UNCHANGED <<client_vars, extract_vars>>

\* schema.py:13-20 and 28-36  the fetch completes, fails or is cancelled; the
\* "async with" block is left and the connection goes back to its pool
schema_tool_resume(t) ==
    /\ t \in 1 .. Len(calls)
    /\ calls[t].pc = "fetching"
    /\ \E outcome \in {"rows", "error", "cancelled"} :
          calls' = [calls EXCEPT ![t].pc = "done", ![t].result = outcome]
    /\ checked_out' = [checked_out EXCEPT ![calls[t].conn_id] = @ - 1]
    /\ UNCHANGED <<mcp_state, lifespans, connection_map, reverse_map, pools,
                   next_id, connect_ret, last_conn, released>>
    /\ UNCHANGED <<client_vars, extract_vars>>

(* --------------------- client: text primitives ------------------------- *)
(* A text is a sequence of one-character strings; positions are Python's   *)
(* (0-based), so Find is str.find and Slice(t, a, b) is t[a:b].            *)

Slice(t, a, b) == SubSeq(t, a + 1, b)

From(t, a) == SubSeq(t, a + 1, Len(t))

StartsWithAt(t, p, k) ==
    /\ k + Len(p) <= Len(t)
    /\ SubSeq(t, k + 1, k + Len(p)) = p

\* str.find: the lowest index where p occurs in t, -1 when it does not
Find(t, p) ==
    LET at == {k \in 0 .. Len(t) - Len(p) : StartsWithAt(t, p, k)}
    IN  IF at = {} THEN -1 ELSE CHOOSE k \in at : \A j \in at : k <= j

\* the "in" operator on strings
In(p, t) == Find(t, p) >= 0

StartsWith(t, p) == StartsWithAt(t, p, 0)

EndsWith(t, p) == Len(p) <= Len(t) /\ StartsWithAt(t, p, Len(t) - Len(p))

IsSpace(c) == c \in {" ", "\n", "\t", "\r"}

\* str.strip
Strip(t) ==
    LET keep == {k \in 1 .. Len(t) : ~IsSpace(t[k])}
    IN  IF keep = {} THEN <<>>
        ELSE SubSeq(t, CHOOSE k \in keep : \A j \in keep : k <= j,
                       CHOOSE k \in keep : \A j \in keep : k >= j)

LowerCase == <<"a", "b", "c", "d", "e", "f", "g", "h", "i", "j", "k", "l", "m",
               "n", "o", "p", "q", "r", "s", "t", "u", "v", "w", "x", "y", "z">>

UpperCase == <<"A", "B", "C", "D", "E", "F", "G", "H", "I", "J", "K", "L", "M",
               "N", "O", "P", "Q", "R", "S", "T", "U", "V", "W", "X", "Y", "Z">>

UpperChar(c) ==
    IF \E k \in 1 .. Len(LowerCase) : LowerCase[k] = c
    THEN UpperCase[CHOOSE k \in 1 .. Len(LowerCase) : LowerCase[k] = c]
    ELSE c

\* the letter sharp s (U+00DF), whose upper case is the two letters "SS"
SharpS == "<sharp s>"

\* str.upper of one character: one character, but two for a sharp s
UpperOf(c) == IF c = SharpS THEN <<"S", "S">> ELSE <<UpperChar(c)>>

\* str.upper
RECURSIVE Upper(_)
Upper(t) == IF t = <<>> THEN <<>> ELSE UpperOf(Head(t)) \o Upper(Tail(t))

\* str.split(sep)
RECURSIVE Split(_, _)
Split(t, sep) ==
    LET k == Find(t, sep)
    IN  IF k < 0 THEN <<t>>
        ELSE <<Slice(t, 0, k)>> \o Split(From(t, k + Len(sep)), sep)

\* Optional[str]
None == [none |-> TRUE, text |-> <<>>]

Some(t) == [none |-> FALSE, text |-> t]

\* Python's "not x" for an Optional[str]
Not(x) == x.none \/ x.text = <<>>

\* the backquote character (the module's lexer has no string for it)
Backtick == "<backtick>"

Fence == <<Backtick, Backtick, Backtick>>

FenceSql == Fence \o <<"s", "q", "l">>

SqlTag == <<"s", "q", "l", "\n">>

KwSELECT == <<"S", "E", "L", "E", "C", "T">>
KwWITH == <<"W", "I", "T", "H">>
KwCREATE == <<"C", "R", "E", "A", "T", "E">>
KwINSERT == <<"I", "N", "S", "E", "R", "T">>
KwUPDATE == <<"U", "P", "D", "A", "T", "E">>
KwDELETE == <<"D", "E", "L", "E", "T", "E">>

\* ollama_cli.py:173  the keywords of the generic fenced-block strategy
BlockKeywords == <<KwSELECT, KwWITH, KwCREATE, KwINSERT, KwUPDATE, KwDELETE>>

\* ollama_cli.py:179  the keywords of the bare scan, in its order
ScanKeywords == <<KwWITH, KwSELECT, KwCREATE, KwINSERT, KwUPDATE, KwDELETE>>

\* ollama_cli.py:185  the end markers of the bare scan, in its order
EndMarkers == <<<<"\n", "\n">>, Fence, <<".", "\n">>>>

(* ------------------ client: extract_sql_from_response ------------------ *)

\* ollama_cli.py:155-161  Strategy 1: the sql-tagged fenced block
Strategy1(t) ==
    IF In(FenceSql, t) /\ In(Fence, From(t, Find(t, FenceSql) + Len(FenceSql)))
    THEN LET sql_start == Find(t, FenceSql) + 6
             remaining_text == From(t, sql_start)
             sql_end == Find(remaining_text, Fence)
         IN  IF sql_end > 0
             THEN Some(Strip(Slice(remaining_text, 0, sql_end)))
             ELSE None
    ELSE None

\* ollama_cli.py:168-170  a block of the fence split, its sql tag removed
Block(code_blocks, i) ==
    LET block == Strip(code_blocks[i + 1])
    IN  IF StartsWith(block, SqlTag) THEN Strip(From(block, 4)) ELSE block

\* ollama_cli.py:173-175
HasBlockKeyword(block) ==
    \E k \in 1 .. Len(BlockKeywords) : In(BlockKeywords[k], Upper(block))

\* ollama_cli.py:164-175  Strategy 2: the first fenced block with a keyword
Strategy2(t) ==
    IF In(Fence, t)
    THEN LET code_blocks == Split(t, Fence)
             odd == {i \in 1 .. Len(code_blocks) - 1 :
                        i % 2 = 1 /\ HasBlockKeyword(Block(code_blocks, i))}
         IN  IF Len(code_blocks) >= 3 /\ odd # {}
             THEN Some(Block(code_blocks, CHOOSE i \in odd : \A j \in odd : i <= j))
             ELSE None
    ELSE None

\* ollama_cli.py:185-187  one end marker after the other cuts the statement
RECURSIVE Truncate(_, _)
Truncate(sql_query, m) ==
    IF m > Len(EndMarkers) THEN sql_query
    ELSE IF In(EndMarkers[m], sql_query)
    THEN Truncate(Strip(Slice(sql_query, 0, Find(sql_query, EndMarkers[m]))), m + 1)
    ELSE Truncate(sql_query, m + 1)

\* the bare keyword scan with the keywords in the order of the fenced strategy
Strategy3_block_order(t) ==
    LET found == {k \in 1 .. Len(BlockKeywords) : In(BlockKeywords[k], Upper(t))}
    IN  IF found = {} THEN None
        ELSE LET keyword == BlockKeywords[CHOOSE k \in found : \A j \in found : k <= j]
                 keyword_pos == Find(Upper(t), keyword)
             IN  Some(Truncate(Strip(From(t, keyword_pos)), 1))

\* ollama_cli.py:178-189  Strategy 3: the bare keyword scan
Strategy3(t) ==
    LET found == {k \in 1 .. Len(ScanKeywords) : In(ScanKeywords[k], Upper(t))}
    IN  IF found = {} THEN None
        ELSE LET keyword == ScanKeywords[CHOOSE k \in found : \A j \in found : k <= j]
                 keyword_pos == Find(Upper(t), keyword)
             IN  Some(Truncate(Strip(From(t, keyword_pos)), 1))

\* ollama_cli.py:142-191
extract_sql_from_response(text) ==
    IF ~Strategy1(text).none THEN Strategy1(text)
    ELSE IF ~Strategy2(text).none THEN Strategy2(text)
    ELSE Strategy3(text)

\* the statement trimmed and a semicolon appended without looking at its end
PostProcess_always_append(sql_query) == Strip(sql_query) \o <<";">>

\* ollama_cli.py:121-124  the statement trimmed and ended by a semicolon
PostProcess(sql_query) ==
    LET s == Strip(sql_query)
    IN  IF EndsWith(s, <<";">>) THEN s ELSE s \o <<";">>

(* --------------------------- client: state ----------------------------- *)

NoExit == -1

NoData == [success |-> FALSE, sql |-> None]

ClientInit ==
    /\ pc = "start"
    /\ conn_id = NoId
    /\ response_text = None
    /\ response_data = NoData
    /\ query_result = "none"
    /\ issued = <<>>
    /\ exit_code = NoExit
    /\ failure = ""
    /\ interrupted = FALSE

(* the model texts the runs are checked on; [fence] is three backquotes   *)

\* "[fence]sql\nSELECT 1;\n[fence]"
FencedSql ==
    <<Backtick, Backtick, Backtick, "s", "q", "l", "\n", "S", "E", "L",
      "E", "C", "T", " ", "1", ";", "\n", Backtick, Backtick, Backtick>>

\* "Ok SELECT 1\n\nbye."
BareSelect ==
    <<"O", "k", " ", "S", "E", "L", "E", "C", "T", " ", "1", "\n",
      "\n", "b", "y", "e", ".">>

\* "hello"
NoSql ==
    <<"h", "e", "l", "l", "o">>

\* "[fence]sql [fence]"
EmptyFencedSql ==
    <<Backtick, Backtick, Backtick, "s", "q", "l", " ", Backtick,
      Backtick, Backtick>>

\* ""
EmptyText ==
    <<>>

\* "[fence]\nwith x\n[fence]"
GenericFence ==
    <<Backtick, Backtick, Backtick, "\n", "w", "i", "t", "h", " ", "x",
      "\n", Backtick, Backtick, Backtick>>

\* "delete t.\nok"
BareDelete ==
    <<"d", "e", "l", "e", "t", "e", " ", "t", ".", "\n", "o", "k">>

\* "[fence]sql\nSELECT 1\n[fence]"
FencedNoSemicolon ==
    <<Backtick, Backtick, Backtick, "s", "q", "l", "\n", "S", "E", "L",
      "E", "C", "T", " ", "1", "\n", Backtick, Backtick, Backtick>>

\* "[fence]\nfoo\n[fence] update t"
FenceThenBare ==
    <<Backtick, Backtick, Backtick, "\n", "f", "o", "o", "\n",
      Backtick, Backtick, Backtick, " ", "u", "p", "d", "a", "t", "e",
      " ", "t">>

\* "select a with b"
WithAndSelect ==
    <<"s", "e", "l", "e", "c", "t", " ", "a", " ", "w", "i", "t", "h",
      " ", "b">>

Responses ==
    {FencedSql, BareSelect, NoSql, EmptyFencedSql, EmptyText, GenericFence,
     BareDelete, FencedNoSemicolon, FenceThenBare, WithAndSelect}

\* "[fence]SQL\nselect 1\n[fence]"
UpperTagFence ==
    <<Backtick, Backtick, Backtick, "S", "Q", "L", "\n", "s", "e", "l",
      "e", "c", "t", " ", "1", "\n", Backtick, Backtick, Backtick>>

\* "[fence] sql\nselect 1\n[fence]"
SpacedTagFence ==
    <<Backtick, Backtick, Backtick, " ", "s", "q", "l", "\n", "s", "e",
      "l", "e", "c", "t", " ", "1", "\n", Backtick, Backtick, Backtick>>

\* "select 1.\n\nfoo"
PeriodBlankLine ==
    <<"s", "e", "l", "e", "c", "t", " ", "1", ".", "\n", "\n", "f",
      "o", "o">>

\* "no [fence]x[fence] but [fence]insert y[fence]"
SecondBlock ==
    <<"n", "o", " ", Backtick, Backtick, Backtick, "x", Backtick,
      Backtick, Backtick, " ", "b", "u", "t", " ", Backtick, Backtick,
      Backtick, "i", "n", "s", "e", "r", "t", " ", "y", Backtick,
      Backtick, Backtick>>

\* "[sharp s] select 1"
SharpSBeforeSelect ==
    <<SharpS, " ", "s", "e", "l", "e", "c", "t", " ", "1">>

MoreResponses ==
    {UpperTagFence, SpacedTagFence, PeriodBlankLine, SecondBlock,
     SharpSBeforeSelect}

Range(s) == {s[k] : k \in 1 .. Len(s)}

\* sys.exit(1) with the step that failed
Exit1(step) ==
    /\ pc' = "exited"
    /\ exit_code' = 1
    /\ failure' = IF failure = "" THEN step ELSE failure

(* ---------------------------- client: main ----------------------------- *)

\* ollama_cli.py:270-284  DATABASE_URL and the query argument are required
main_validate ==
    /\ pc = "start"
    /\ \E db_url \in BOOLEAN, argv \in BOOLEAN :
          IF db_url /\ argv
          THEN pc' = "validated" /\ UNCHANGED <<exit_code, failure>>
          ELSE Exit1("config")
    /\ UNCHANGED <<conn_id, response_text, response_data, query_result, issued,
                   interrupted>>
    /\ UNCHANGED <<server_vars, extract_vars>>

\* ollama_cli.py:286-295 and 357-365  the SSE streams and session.initialize()
main_open_session ==
    /\ pc = "validated"
    /\ \E outcome \in {"initialized", "ConnectError", "Exception"} :
          IF outcome = "initialized"
          THEN pc' = "session" /\ UNCHANGED <<exit_code, failure>>
          ELSE Exit1("session")
    /\ UNCHANGED <<conn_id, response_text, response_data, query_result, issued,
                   interrupted>>
    /\ UNCHANGED <<server_vars, extract_vars>>

\* ollama_cli.py:193-229 and 298-302  connect_to_database and its None test
connect_to_database ==
    /\ pc = "session"
    /\ issued' = Append(issued, "connect")
    /\ \E outcome \in {"conn_id", "raises", "no content", "no text", "bad json",
                       "no conn_id"} :
          IF outcome = "conn_id"
          THEN /\ conn_id' = 1
               /\ pc' = "connected"
               /\ UNCHANGED <<exit_code, failure>>
          ELSE /\ Exit1("connect")
               /\ UNCHANGED conn_id
    /\ UNCHANGED <<response_text, response_data, query_result, interrupted>>
    /\ UNCHANGED <<server_vars, extract_vars>>

\* the prompt retrieval whose failure does not stop the generation
get_prompt_ignore_failure ==
    /\ pc = "connected"
    /\ issued' = Append(issued, "get_prompt")
    /\ \E outcome \in {"messages", "no messages", "raises"} :
          /\ pc' = "prompted"
          /\ failure' = IF outcome = "messages" THEN failure ELSE "prompt"
    /\ UNCHANGED <<conn_id, response_text, response_data, query_result,
                   exit_code, interrupted>>
    /\ UNCHANGED <<server_vars, extract_vars>>

\* ollama_cli.py:54-73 and 134-139  the generate_sql prompt is fetched
get_prompt ==
    /\ pc = "connected"
    /\ issued' = Append(issued, "get_prompt")
    /\ \E outcome \in {"messages", "no messages", "raises"} :
          IF outcome = "messages"
          THEN pc' = "prompted" /\ UNCHANGED <<response_data, failure>>
          ELSE /\ pc' = "generation failed"
               /\ response_data' = NoData
               /\ failure' = "prompt"
    /\ UNCHANGED <<conn_id, response_text, query_result, exit_code, interrupted>>
    /\ UNCHANGED <<server_vars, extract_vars>>

\* the model call followed by no test of what extraction returned
generate_sql_with_ollama_no_check ==
    /\ pc = "prompted"
    /\ issued' = Append(issued, "ollama")
    /\ \E text \in Responses :
          LET extracted == extract_sql_from_response(text) IN
          /\ response_text' = Some(text)
          /\ IF extracted.none
             THEN /\ pc' = "generation failed"
                  /\ response_data' = NoData
                  /\ failure' = "extraction"
             ELSE /\ pc' = "generated"
                  /\ response_data' =
                        [success |-> TRUE, sql |-> Some(PostProcess(extracted.text))]
                  /\ UNCHANGED failure
    /\ UNCHANGED <<conn_id, query_result, exit_code, interrupted>>
    /\ UNCHANGED <<server_vars, extract_vars>>

\* ollama_cli.py:75-139  the model call, extraction and post-processing
generate_sql_with_ollama ==
    /\ pc = "prompted"
    /\ issued' = Append(issued, "ollama")
    /\ \/ \* ollama_cli.py:90-108  the API call failed
          /\ \E outcome \in {"HTTPStatusError", "RequestError", "Exception"} :
                failure' = "model"
          /\ pc' = "generation failed"
          /\ response_data' = NoData
          /\ UNCHANGED response_text
       \/ \* ollama_cli.py:86-87, 110-132
          \E text \in Responses :
             LET extracted == extract_sql_from_response(text) IN
             /\ response_text' = Some(text)
             /\ IF Not(extracted)
                THEN /\ pc' = "generation failed"
                     /\ response_data' = NoData
                     /\ failure' = "extraction"
                ELSE /\ pc' = "generated"
                     /\ response_data' =
                           [success |-> TRUE, sql |-> Some(PostProcess(extracted.text))]
                     /\ UNCHANGED failure
    /\ UNCHANGED <<conn_id, query_result, exit_code, interrupted>>
    /\ UNCHANGED <<server_vars, extract_vars>>

\* ollama_cli.py:308-321  generation failed: disconnect, then exit 1
main_generation_failed ==
    /\ pc = "generation failed"
    /\ issued' = Append(issued, "disconnect")
    /\ \E outcome \in {"returns", "raises"} : Exit1("generation")
    /\ UNCHANGED <<conn_id, response_text, response_data, query_result,
                   interrupted>>
    /\ UNCHANGED <<server_vars, extract_vars>>

\* ollama_cli.py:323-349 with execute_query (232-265) and 362-365
main_execute ==
    /\ pc = "generated"
    /\ IF Not(response_data.sql)
       THEN \* ollama_cli.py:332-336
            /\ issued' = Append(issued, "disconnect")
            /\ Exit1("no sql")
            /\ UNCHANGED query_result
       ELSE \* ollama_cli.py:339
            /\ issued' = Append(issued, "pg_query")
            /\ \E outcome \in {"rows", "no rows", "error result", "raises"} :
                  /\ query_result' = outcome
                  /\ IF outcome = "raises"
                     THEN \* ollama_cli.py:362-365
                          Exit1("pg_query raised")
                     ELSE \* ollama_cli.py:249-265, 341-349  an error result is
                          \* text that is no JSON: it is skipped with a warning
                          /\ pc' = "executed"
                          /\ failure' = IF outcome = "error result"
                                        THEN "pg_query failed" ELSE failure
                          /\ UNCHANGED exit_code
    /\ UNCHANGED <<conn_id, response_text, response_data, interrupted>>
    /\ UNCHANGED <<server_vars, extract_vars>>

\* ollama_cli.py:351-355 and 362-365  the final disconnect; main returns
main_disconnect ==
    /\ pc = "executed"
    /\ issued' = Append(issued, "disconnect")
    /\ \E outcome \in {"returns", "raises"} :
          IF outcome = "raises"
          THEN Exit1("disconnect")
          ELSE pc' = "exited" /\ exit_code' = 0 /\ UNCHANGED failure
    /\ UNCHANGED <<conn_id, response_text, response_data, query_result,
                   interrupted>>
    /\ UNCHANGED <<server_vars, extract_vars>>

\* ollama_cli.py:398-402  Ctrl-C while main runs: "cancelled by user", exit 0
keyboard_interrupt ==
    /\ pc # "exited"
    /\ pc' = "exited"
    /\ exit_code' = 0
    /\ interrupted' = TRUE
    /\ UNCHANGED <<conn_id, response_text, response_data, query_result, issued,
                   failure>>
    /\ UNCHANGED <<server_vars, extract_vars>>

ClientNext ==
    \/ main_validate
    \/ main_open_session
    \/ connect_to_database
    \/ get_prompt
    \/ generate_sql_with_ollama
    \/ main_generation_failed
    \/ main_execute
    \/ main_disconnect
    \/ keyboard_interrupt

(* --------------------------- server: behaviour ------------------------- *)

ServerNext ==
    \/ app_lifespan_enter
    \/ app_lifespan_exit
    \/ \E s \in Strings : connect(s)
    \/ \E i \in ConnIdArgs : disconnect(i)
    \/ \E t \in 1 .. MaxCalls : disconnect_resume(t)
    \/ \E i \in ConnIdArgs : pg_list_tables(i)
    \/ \E i \in ConnIdArgs : pg_describe_table(i)
    \/ \E t \in 1 .. MaxCalls : schema_tool_resume(t)

(* --------------------- client: the extraction pipeline ----------------- *)

\* ollama_cli.py:110-132  what the generation returns once the model answered
sql_generation(text) ==
    LET sql_query == extract_sql_from_response(text)
    IN  IF Not(sql_query) THEN NoData
        ELSE [success |-> TRUE, sql |-> Some(PostProcess(sql_query.text))]

\* the pieces the model responses are made of
Tokens ==
    <<Fence, <<"s", "q", "l">>, <<"\n">>, <<".">>, <<";">>,
      <<"s", "e", "l", "e", "c", "t">>, <<"W", "I", "T", "H">>, <<"x">>,
      <<SharpS>>>>

\* the texts of at most n pieces
RECURSIVE TokenTexts(_)
TokenTexts(n) ==
    IF n = 0 THEN {<<>>}
    ELSE LET shorter == TokenTexts(n - 1)
         IN  shorter \cup {t \o Tokens[k] : t \in shorter, k \in 1 .. Len(Tokens)}

\* no pipeline runs
ExtractIdle ==
    /\ stage = "idle"
    /\ model_response = <<>>
    /\ extraction = None
    /\ generation = NoData
    /\ regeneration = NoData

\* ollama_cli.py:86-87  the model answered some text
ModelAnswered ==
    /\ stage = "response"
    /\ model_response \in TokenTexts(MaxTokens) \cup Responses \cup MoreResponses
    /\ extraction = None
    /\ generation = NoData
    /\ regeneration = NoData

\* ollama_cli.py:111  sql_query = extract_sql_from_response(response_text)
extract_step ==
    /\ stage = "response"
    /\ extraction' = extract_sql_from_response(model_response)
    /\ stage' = "extracted"
    /\ UNCHANGED <<model_response, generation, regeneration>>
    /\ UNCHANGED <<server_vars, client_vars>>

\* ollama_cli.py:113-132  the None test, the post-processing, the result dict
generate_step ==
    /\ stage = "extracted"
    /\ generation' = IF Not(extraction) THEN NoData
                     ELSE [success |-> TRUE,
                           sql |-> Some(PostProcess(extraction.text))]
    /\ stage' = "generated"
    /\ UNCHANGED <<model_response, extraction, regeneration>>
    /\ UNCHANGED <<server_vars, client_vars>>

\* ollama_cli.py:110-132  the generated sql answered as the next response
regenerate_step ==
    /\ stage = "generated"
    /\ generation.success
    /\ regeneration' = sql_generation(generation.sql.text)
    /\ stage' = "regenerated"
    /\ UNCHANGED <<model_response, extraction, generation>>
    /\ UNCHANGED <<server_vars, client_vars>>

ExtractNext ==
    \/ extract_step
    \/ generate_step
    \/ regenerate_step

(* ---------------------------- specifications -------------------------- *)

vars == <<server_vars, client_vars, extract_vars>>

Init == ServerInit /\ ClientInit /\ ExtractIdle

\* the server under any interleaving of tool calls and lifespans
Next == ServerNext

Spec == Init /\ [][Next]_vars

\* one run of the example client against any server
ClientSpec == Init /\ [][ClientNext]_vars

\* the extraction pipeline on every model response of the bounded set
ExtractInit == ServerInit /\ ClientInit /\ ModelAnswered

ExtractSpec == ExtractInit /\ [][ExtractNext]_vars

(* ------------------------------- claims -------------------------------- *)

Disconnects == {t \in 1 .. Len(calls) : calls[t].kind = "disconnect"}

\* C1: a connect(s) that follows a connect(s) with no disconnect step in
\* between (whatever other tool calls and lifespans interleave) returns the
\* conn_id the earlier one returned.
C1_SameIdTwice ==
    connect_ret.prev # NoId => connect_ret.conn_id = connect_ret.prev

\* the second of two connect calls returned while a schema call was in flight
C1_Witness ==
    /\ connect_ret.prev # NoId
    /\ connect_ret.conn_id = connect_ret.prev
    /\ \E t \in 1 .. Len(calls) : calls[t].pc = "fetching"

\* C2: in every reachable state no two pools belong to the same connection
\* string, also while a disconnect is suspended closing its pool.
C2_OnePoolPerString ==
    \A i \in DOMAIN pools : \A j \in DOMAIN pools :
        pools[i] = pools[j] => i = j

\* a disconnect is suspended on a pool whose string was connected again since
C2_Witness ==
    \E t \in Disconnects :
        /\ calls[t].pc = "closing"
        /\ calls[t].conn_id \in DOMAIN pools
        /\ last_conn[pools[calls[t].conn_id]] = calls[t].conn_id

\* C3: every tool call that starts after a disconnect of its conn_id returned
\* {success: true} fails as an unknown connection; disconnect answers
\* {success: false, error: "Unknown connection ID"}.
C3_ReleasedIdIsUnknown ==
    \A t \in 1 .. Len(calls) :
        calls[t].late =>
            /\ calls[t].pc = "done"
            /\ calls[t].result = IF calls[t].kind = "disconnect"
                                 THEN "Unknown connection ID"
                                 ELSE "UnknownConnection"

\* a second disconnect of an id after the first one succeeded
C3_Witness ==
    \E t \in Disconnects : \E u \in Disconnects :
        /\ t < u
        /\ calls[t].conn_id = calls[u].conn_id
        /\ calls[t].result = "success"
        /\ calls[u].late
        /\ calls[u].result = "Unknown connection ID"

\* C4: a disconnect of a conn_id that is not registered returns
\* {success: false, error: "Unknown connection ID"} and changes neither map,
\* no pool, no checked-out connection and creates no handle.
C4_UnknownDisconnectNoEffect ==
    [][(/\ Len(calls') = Len(calls) + 1
        /\ calls'[Len(calls')].kind = "disconnect"
        /\ calls'[Len(calls')].conn_id \notin DOMAIN connection_map)
       => (/\ calls'[Len(calls')].pc = "done"
           /\ calls'[Len(calls')].result = "Unknown connection ID"
           /\ UNCHANGED <<connection_map, reverse_map, pools, checked_out,
                          next_id>>)]_vars

\* an unregistered id was disconnected while another handle was registered
C4_Witness ==
    \E t \in Disconnects :
        /\ calls[t].result = "Unknown connection ID"
        /\ calls[t].conn_id \notin DOMAIN connection_map
        /\ DOMAIN connection_map # {}
        /\ DOMAIN pools = DOMAIN connection_map

\* C5: of two disconnect calls for one registered id that overlap (the second
\* starts while the first is suspended closing the pool) and whose close does
\* not raise, exactly one returns success and the other one "Unknown
\* connection ID".
C5_ConcurrentDoubleClose ==
    \A t \in Disconnects : \A p \in calls[t].peers :
        (/\ calls[t].pc = "done" /\ calls[p].pc = "done"
         /\ calls[t].result # "error" /\ calls[p].result # "error")
        => {calls[t].result, calls[p].result} = {"success", "Unknown connection ID"}

\* C6: in every state (each is a point between two awaits, where another
\* tool call can run) the id-to-string map and the string-to-id map are
\* inverses of each other.
C6_MapsInverse ==
    /\ \A i \in DOMAIN connection_map :
          /\ connection_map[i] \in DOMAIN reverse_map
          /\ reverse_map[connection_map[i]] = i
    /\ \A s \in DOMAIN reverse_map :
          /\ reverse_map[s] \in DOMAIN connection_map
          /\ connection_map[reverse_map[s]] = s

\* a disconnect removed its entries while another handle stays registered
C6_Witness ==
    \E t \in Disconnects :
        /\ calls[t].result = "success"
        /\ calls[t].conn_id \notin DOMAIN connection_map
        /\ DOMAIN connection_map # {}
        /\ DOMAIN reverse_map # {}

\* C7: the exit of an app_lifespan context closes no pool and removes no
\* registry entry, and a pool goes away only in the step in which a
\* disconnect of its id completes its close.
C7_SessionEndKeepsPools ==
    [][/\ lifespans'.ended > lifespans.ended
          => UNCHANGED <<connection_map, reverse_map, pools>>
       /\ \A i \in DOMAIN pools :
             i \notin DOMAIN pools'
             => \E t \in Disconnects :
                   /\ calls[t].conn_id = i
                   /\ calls[t].pc = "closing"
                   /\ calls'[t].result = "success"]_vars

\* every session has ended and the registered handles still have their pools
C7_Witness ==
    /\ lifespans.ended > 0
    /\ lifespans.open = 0
    /\ DOMAIN connection_map # {}
    /\ DOMAIN pools = DOMAIN connection_map

\* C8: a run that got a conn_id and in which a later step failed has issued
\* a disconnect by the time it exits.
C8_DisconnectOnEveryFailure ==
    (pc = "exited" /\ conn_id # NoId /\ failure # "" /\ ~interrupted)
    => "disconnect" \in Range(issued)

\* C9: when extraction recovers no SQL from the model text (None or the
\* empty string), pg_query is never called in that run.
C9_NoExecutionWithoutSql ==
    (~response_text.none /\ Not(extract_sql_from_response(response_text.text)))
    => "pg_query" \notin Range(issued)

\* extraction returned the empty string and the run ended after disconnect
C9_Witness ==
    /\ pc = "exited"
    /\ ~response_text.none
    /\ extract_sql_from_response(response_text.text) = Some(<<>>)
    /\ exit_code = 1
    /\ issued = <<"connect", "get_prompt", "ollama", "disconnect">>

\* C10: a run in which a step failed exits non-zero, and a run exits 0 only
\* after the query was executed successfully and disconnect was issued.
C10_FailureExitsNonZero ==
    (pc = "exited" /\ ~interrupted)
    => /\ failure # "" => exit_code # 0
       /\ exit_code = 0
          => /\ query_result \in {"rows", "no rows"}
             /\ "disconnect" \in Range(issued)

\* the stages at which extraction has run on model_response
Extracted == {"extracted", "generated", "regenerated"}

\* C11: for every response that contains a fence opener tagged sql followed
\* later by a closing fence, extraction returns the trimmed text strictly
\* between those two fences, whatever keywords or other fenced blocks the
\* text holds elsewhere.
C11_FencedSqlBlockWins ==
    LET opener == Find(model_response, FenceSql)
        rest == From(model_response, opener + Len(FenceSql))
    IN  (stage \in Extracted /\ opener >= 0 /\ In(Fence, rest))
            => extraction = Some(Strip(Slice(rest, 0, Find(rest, Fence))))

\* the first keyword of the scan order that occurs in t, <<>> when none does
FirstScanKeyword(t) ==
    LET found == {k \in 1 .. Len(ScanKeywords) : In(ScanKeywords[k], Upper(t))}
    IN  IF found = {} THEN <<>>
        ELSE ScanKeywords[CHOOSE k \in found : \A j \in found : k <= j]

\* C12 as stated: for every canonical output q of the pipeline (trimmed,
\* ended by a semicolon, no fence), the pipeline on q yields q again.
C12_Idempotent ==
    (stage = "regenerated" /\ ~In(Fence, generation.sql.text))
        => regeneration = generation

\* C12, amended: for every canonical output q of the pipeline that holds no
\* fence, no blank line and no period followed by a newline, and whose upper
\* case begins with the first keyword of the scan order that occurs in it,
\* the pipeline on q yields q again.
C12_IdempotentOnPlainStatements ==
    LET q == generation.sql.text
    IN  (/\ stage = "regenerated"
         /\ ~In(Fence, q)
         /\ ~In(<<"\n", "\n">>, q)
         /\ ~In(<<".", "\n">>, q)
         /\ FirstScanKeyword(q) # <<>>
         /\ StartsWith(Upper(q), FirstScanKeyword(q)))
            => regeneration = generation

\* a fenced response whose statement holds two keywords came out again
C12_Witness ==
    /\ stage = "regenerated"
    /\ In(Fence, model_response)
    /\ FirstScanKeyword(generation.sql.text) = KwWITH
    /\ In(KwSELECT, Upper(generation.sql.text))
    /\ StartsWith(Upper(generation.sql.text), KwWITH)
    /\ ~In(<<"\n", "\n">>, generation.sql.text)
    /\ ~In(<<".", "\n">>, generation.sql.text)
    /\ regeneration = generation

\* C13: whenever the generation reports success, the returned sql is not
\* empty, has no whitespace at either end and ends with ";"; it is the
\* trimmed extracted statement, with one ";" appended exactly when that
\* statement does not end with ";" already.
C13_GeneratedSqlCanonical ==
    (stage \in {"generated", "regenerated"} /\ generation.success) =>
        LET sql == generation.sql.text
            trimmed == Strip(extraction.text)
            ended == trimmed # <<>> /\ trimmed[Len(trimmed)] = ";"
        IN  /\ ~generation.sql.none
            /\ sql # <<>>
            /\ ~IsSpace(sql[1])
            /\ ~IsSpace(sql[Len(sql)])
            /\ sql[Len(sql)] = ";"
            /\ SubSeq(sql, 1, Len(trimmed)) = trimmed
            /\ Len(sql) = Len(trimmed) + (IF ended THEN 0 ELSE 1)

\* a statement that came out of the extraction with its semicolon was
\* returned as it is
C13_Witness ==
    /\ stage = "generated"
    /\ generation.success
    /\ EndsWith(extraction.text, <<";">>)
    /\ Len(extraction.text) > 1
    /\ generation.sql = extraction

\* the responses the bare keyword scan handles: no fenced strategy matched
\* and some keyword of the scan occurs
BareScan ==
    /\ stage \in Extracted
    /\ Strategy1(model_response).none
    /\ Strategy2(model_response).none
    /\ FirstScanKeyword(model_response) # <<>>

\* C14: in the bare keyword scan the statement taken from the keyword
\* position onward is cut at whichever of the three end markers (blank line,
\* fence, period-then-newline) occurs first in it: the result is the trimmed
\* text from the keyword up to that earliest marker.
C14_CutAtEarliestMarker ==
    LET keyword_pos == Find(Upper(model_response), FirstScanKeyword(model_response))
        rest == Strip(From(model_response, keyword_pos))
        ends == {Find(rest, EndMarkers[m]) : m \in 1 .. Len(EndMarkers)} \ {-1}
        cut == IF ends = {} THEN Len(rest)
               ELSE CHOOSE k \in ends : \A j \in ends : k <= j
    IN  BareScan => extraction = Some(Strip(Slice(rest, 0, cut)))

\* ollama_cli.py:298, 54, 80, 339, 351  the remote calls of one run, in order
RemoteCalls == <<"connect", "get_prompt", "ollama", "pg_query", "disconnect">>

\* the place of a remote call in RemoteCalls
Rank(call) == CHOOSE k \in 1 .. Len(RemoteCalls) : RemoteCalls[k] = call

\* C15: the remote calls of a run are issued in the order connect, prompt
\* retrieval, model call, pg_query, disconnect, each at most once; connect,
\* prompt retrieval, model call and pg_query are each issued only directly
\* after their predecessor succeeded (a failure leads to the disconnect or to
\* the exit, never back); no call is issued once the run has exited.
C15_LinearOrchestration ==
    /\ [](\A a \in 1 .. Len(issued) : \A b \in 1 .. Len(issued) :
              a < b => Rank(issued[a]) < Rank(issued[b]))
    /\ [][issued' # issued =>
             /\ pc # "exited"
             /\ Len(issued') = Len(issued) + 1
             /\ SubSeq(issued', 1, Len(issued)) = issued
             /\ LET call == issued'[Len(issued')] IN
                   IF call = "connect" THEN issued = <<>>
                   ELSE IF call = "disconnect"
                   THEN conn_id # NoId /\ "disconnect" \notin Range(issued)
                   ELSE /\ issued # <<>>
                        /\ Rank(issued[Len(issued)]) = Rank(call) - 1
                        /\ failure = ""]_vars

\* a run that issued all five calls and returned
C15_Witness ==
    /\ pc = "exited"
    /\ exit_code = 0
    /\ ~interrupted
    /\ issued = RemoteCalls

\* C16: at every point between two awaits (also while a disconnect is
\* suspended closing a pool) every id of the id-to-string map has its pool
\* and no disconnect is closing that pool, so the id connect returns never
\* names a pool that is closed or being closed.
C16_RegisteredIdHasOpenPool ==
    \A i \in DOMAIN connection_map :
        /\ i \in DOMAIN pools
        /\ Closing(i) = {}

\* C17: when no sql-tagged block was usable and the fence split has at
\* least three parts, extraction returns the first part at an odd position
\* that contains one of SELECT, WITH, CREATE, INSERT, UPDATE, DELETE in any
\* letter case, trimmed and without its leading language tag line (a first
\* line that spells sql, in any letter case), never a part at an even
\* position.
C17_FirstFencedBlockWithKeyword ==
    LET code_blocks == Split(model_response, Fence)
        Untagged(i) ==
            LET block == Strip(code_blocks[i + 1])
            IN  IF Find(block, <<"\n">>) = 3
                   /\ Upper(Slice(block, 0, 3)) = <<"S", "Q", "L">>
                THEN Strip(From(block, 4))
                ELSE block
        odd == {i \in 1 .. Len(code_blocks) - 1 :
                   i % 2 = 1 /\ HasBlockKeyword(Untagged(i))}
    IN  (/\ stage \in Extracted
         /\ Strategy1(model_response).none
         /\ Len(code_blocks) >= 3
         /\ odd # {})
            => extraction = Some(Untagged(CHOOSE i \in odd : \A j \in odd : i <= j))

\* C18: when no fenced strategy matched, the extracted statement starts at
\* the first occurrence, in any letter case, of the first keyword in the
\* order WITH, SELECT, CREATE, INSERT, UPDATE, DELETE that occurs in the
\* text; when no keyword occurs, extraction gives None.
C18_StartsAtFirstKeyword ==
    LET t == model_response
        Occurs(kw) == {k \in 0 .. Len(t) - Len(kw) :
                          Upper(Slice(t, k, k + Len(kw))) = kw}
        found == {k \in 1 .. Len(ScanKeywords) : Occurs(ScanKeywords[k]) # {}}
        first == ScanKeywords[CHOOSE k \in found : \A j \in found : k <= j]
        start == CHOOSE k \in Occurs(first) : \A j \in Occurs(first) : k <= j
        rest == Strip(From(t, start))
    IN  (stage \in Extracted /\ Strategy1(t).none /\ Strategy2(t).none) =>
            IF found = {} THEN extraction = None
            ELSE /\ ~extraction.none
                 /\ Len(extraction.text) >= Len(first)
                 /\ SubSeq(rest, 1, Len(extraction.text)) = extraction.text

\* the schema tool calls suspended in their query on id i
Fetching(i) ==
    {t \in 1 .. Len(calls) : calls[t].pc = "fetching" /\ calls[t].conn_id = i}

\* C19: the connections checked out of an id's pool are exactly those of the
\* schema tool calls still suspended in their query on that id: a call that
\* ended (rows, query error, cancellation) has given its connection back,
\* and a call for an unregistered id has acquired none.
C19_AcquiredIsReleased ==
    \A i \in Ids : checked_out[i] = Cardinality(Fetching(i))

\* a cancelled call and a call for an unregistered id have ended, and
\* nothing is checked out
C19_Witness ==
    /\ \E t \in 1 .. Len(calls) : calls[t].result = "cancelled"
    /\ \E t \in 1 .. Len(calls) : calls[t].result = "UnknownConnection"
    /\ \A i \in Ids : checked_out[i] = 0

\* C20: a disconnect whose close raised returns {success: false, error: ...}
\* and leaves both map entries as they are; unless another disconnect of
\* the id succeeded, the id stays registered, and a disconnect of it that
\* starts then is attempted again, not answered "Unknown connection ID".
C20_FailedCloseKeepsRegistration ==
    /\ [][\A t \in Disconnects :
             (calls[t].pc = "closing" /\ calls'[t].result = "error") =>
                 /\ calls'[t].pc = "done"
                 /\ UNCHANGED <<connection_map, reverse_map>>]_vars
    /\ [](\A t \in Disconnects :
             (calls[t].result = "error" /\ calls[t].conn_id \notin released) =>
                 /\ calls[t].conn_id \in DOMAIN connection_map
                 /\ connection_map[calls[t].conn_id] \in DOMAIN reverse_map
                 /\ reverse_map[connection_map[calls[t].conn_id]] = calls[t].conn_id
                 /\ \A u \in Disconnects :
                       (t < u /\ calls[u].conn_id = calls[t].conn_id)
                           => calls[u].result # "Unknown connection ID")

\* after a disconnect whose close raised, a second disconnect of the id is
\* closing the pool again
C20_Witness ==
    \E t \in Disconnects : \E u \in Disconnects :
        /\ t < u
        /\ calls[u].conn_id = calls[t].conn_id
        /\ calls[t].result = "error"
        /\ calls[u].peers = {}
        /\ calls[u].pc = "closing"
        /\ calls[t].conn_id \in DOMAIN connection_map

====
